---- MODULE Spec2Model ----
(***************************************************************************)
(* The execution virtual machine of learndb (src/virtual_machine2.py):     *)
(* catalog bootstrap, run(program, stop_on_err), the CREATE / INSERT /     *)
(* SELECT / DELETE executors, the materializer, the join engine, the       *)
(* condition evaluator and the record-set store.                           *)
(*                                                                         *)
(* The earlier virtual machine (src/virtual_machine.py) is modelled next   *)
(* to it: its run and its INSERT / DELETE / DROP / TRUNCATE / UPDATE       *)
(* handlers with evaluate_where_clause. The variable vm tells which of the *)
(* two classes was constructed.                                            *)
(*                                                                         *)
(* The collaborators that are imported but not part of the sources at hand *)
(* (btree, cursor, statemanager, schema, serde, record_utils, dataexchange)*)
(* are modelled by their contracts.                                        *)
(***************************************************************************)
EXTENDS Integers, Sequences, FiniteSets, TLC

\* ------------------------------------------------------------------------
\* Bounds of the model
\* ------------------------------------------------------------------------

\* longest program handed to run
MaxStmts == 2

\* primary keys are drawn from 1..MaxKey
MaxKey == 2

Keys == 1..MaxKey

\* the value of the non-key column of a row that INSERT may carry
Vals == {10, 20}

\* names of the user tables a program may mention
UserTables == {"L", "R"}

\* ------------------------------------------------------------------------
\* Python values
\* ------------------------------------------------------------------------

\* the value a handler yields when it falls off its end without `return`
None == [kind |-> "None"]

\* a list object
PyList(items) == [kind |-> "list", items |-> items]

\* no value yet: the call has not returned
Unset == [kind |-> "Unset"]

\* dataexchange.Response(success, error_message, body)
Response(success, error_message, body) ==
    [kind |-> "Response", success |-> success,
     error_message |-> error_message, body |-> body]

\* truth value of a Response in `not resp`: a failed Response is falsy
ResponseTruthy(resp) == resp.success

\* Python truthiness of what a handler returned, as used by `not resp`
Truthy(resp) == IF resp.kind = "None" THEN FALSE ELSE ResponseTruthy(resp)

\* a str value
PyStr(s) == [kind |-> "str", s |-> s]

\* symbols3.TableName(table_name): a symbol object wrapping the name string
TableName(n) == [kind |-> "TableName", table_name |-> PyStr(n)]

\* symbols3.SingleSource(table_name, table_alias)
SingleSource(n, alias) ==
    [kind |-> "SingleSource", table_name |-> TableName(n), table_alias |-> alias]

\* does the attribute access `v.table_name` succeed
HasTableNameAttr(v) == v.kind \in {"TableName", "SingleSource"}

\* str.lower() over the names that occur
Lower(s) ==
    CASE s = "Catalog" -> "catalog"
      [] s = "CATALOG" -> "catalog"
      [] s = "L" -> "l"
      [] s = "R" -> "r"
      [] OTHER -> s

\* ------------------------------------------------------------------------
\* Schemas, records and cells
\* ------------------------------------------------------------------------

\* the reserved root page of the catalog tree
CatalogRoot == 0

\* the fixed catalog schema {pkey, name, root_pagenum, sql_text}
CatalogSchema ==
    [name |-> TableName("catalog"),
     columns |-> <<"pkey", "name", "root_pagenum", "sql_text">>,
     pkcol |-> "pkey"]

\* generate_schema(create_stmnt): the schema of CREATE TABLE name (id INT PRIMARY KEY, x INT)
generate_schema(stmnt) ==
    IF stmnt.bad_schema
    THEN Response(FALSE, "schema", <<>>)
    ELSE Response(TRUE, "", [name |-> TableName(stmnt.name),
                             columns |-> <<"id", "x">>, pkcol |-> "id"])

\* schema_to_ddl(schema): the canonical DDL text of a schema
schema_to_ddl(schema) ==
    <<"create table", schema.name.table_name.s, schema.columns, schema.pkcol>>

\* SqlFrontEnd.parse(sql_text) of a canonical DDL text: the one CREATE statement
ParseDDL(sql_text) ==
    [kind |-> "create", name |-> sql_text[2], bad_schema |-> FALSE]

\* index of a column in a schema's column list
ColIndex(schema, col) ==
    CHOOSE i \in 1..Len(schema.columns) : schema.columns[i] = col

\* a Record: its values by column name, tagged with its primary-key column
Record(values, schema) ==
    [kind |-> "Record", values |-> values, pkcol |-> schema.pkcol]

\* Record.get_primary_key()
get_primary_key(record) == record.values[record.pkcol]

\* serialize_record(record): the cell holds the values in column order
serialize_record(values, schema) ==
    [i \in 1..Len(schema.columns) |-> values[schema.columns[i]]]

\* deserialize_cell(cell, schema): the record with each column's value
deserialize_cell(cell, schema) ==
    Record([c \in {schema.columns[i] : i \in 1..Len(schema.columns)}
               |-> cell[ColIndex(schema, c)]], schema)

\* the key of a cell is the value of its first (primary-key) column
CellKey(cell) == cell[1]

\* ------------------------------------------------------------------------
\* Trees and cursors
\* ------------------------------------------------------------------------

\* a tree is the function from the keys it holds to their cells

\* the keys of a set in ascending order
RECURSIVE SortedKeys(_)
SortedKeys(S) ==
    IF S = {} THEN <<>>
    ELSE LET m == CHOOSE k \in S : \A j \in S : k <= j
         IN <<m>> \o SortedKeys(S \ {m})

\* Cursor(pager, tree) walked from start to end_of_table: the cells in key order
CursorScan(tree) ==
    LET ks == SortedKeys(DOMAIN tree) IN [i \in 1..Len(ks) |-> tree[ks[i]]]

\* a Tree.insert that reports DuplicateKey for every key and adds nothing
TreeInsertRejecting(tree, cell) == [status |-> "DuplicateKey", tree |-> tree]

\* Tree.insert(cell): Success and the cell stored, or DuplicateKey and no change
TreeInsert(tree, cell) ==
    IF CellKey(cell) \in DOMAIN tree
    THEN [status |-> "DuplicateKey", tree |-> tree]
    ELSE [status |-> "Success", tree |-> (CellKey(cell) :> cell) @@ tree]

\* Tree.delete(key): Success and the key removed, or NotFound and no change
TreeDelete(tree, key) ==
    IF key \in DOMAIN tree
    THEN [status |-> "Success", tree |-> [k \in DOMAIN tree \ {key} |-> tree[k]]]
    ELSE [status |-> "NotFound", tree |-> tree]

\* the empty tree
EmptyTree == [k \in {} |-> <<>>]

VARIABLES
    catalog_tree,   \* the catalog tree: pkey -> catalog cell
    trees,          \* pager: root page -> user tree allocated at that page
    schemas,        \* state_manager: table name -> registered schema
    tree_handles,   \* state_manager: table name -> root page of the registered tree
    rsets,          \* VirtualMachine.rsets: record-set name -> list of records
    output_pipe,    \* the records written to the output sink since its last reset
    status,         \* "idle", "running", "returned" or "raised"
    stop_on_err,    \* the stop_on_err argument of the current run
    plen,           \* len(program.statements) of the current run
    program,        \* the statements of the program that were executed so far
    result,         \* the result list of the current run
    exc,            \* the exception that left run, "none" when there is none
    live,           \* table name -> cells inserted and not deleted since (history)
    vm,             \* the module whose VirtualMachine class was constructed
    retval          \* what run returned, Unset until it returns

vars == <<catalog_tree, trees, schemas, tree_handles, rsets, output_pipe,
          status, stop_on_err, plen, program, result, exc, live, vm, retval>>


\* ------------------------------------------------------------------------
\* State manager and pager
\* ------------------------------------------------------------------------

\* state_manager.table_exists(table_name) / has_schema(table_name)
table_exists(table_name) == table_name \in DOMAIN tree_handles

has_schema(table_name) == table_name \in DOMAIN schemas

\* state_manager.allocate_tree(): the root page of a newly allocated tree
allocate_tree ==
    CHOOSE p \in 1..(Cardinality(DOMAIN trees) + 1) : p \notin DOMAIN trees

\* the rows of the tree behind a tree handle (a root page)
TreeOf(page) == IF page = CatalogRoot THEN catalog_tree ELSE trees[page]

\* VirtualMachine.get_schema(table_name): table_name.table_name.lower() needs a
\* symbol whose table_name is a str; a str has no table_name attribute
get_schema(table_name) ==
    IF ~HasTableNameAttr(table_name) \/ table_name.table_name.kind # "str"
    THEN [exc |-> "AttributeError", schema |-> CatalogSchema]
    ELSE IF Lower(table_name.table_name.s) = "catalog"
    THEN [exc |-> "none", schema |-> CatalogSchema]
    ELSE IF ~has_schema(table_name.table_name.s)
    THEN [exc |-> "KeyError", schema |-> CatalogSchema]
    ELSE [exc |-> "none", schema |-> schemas[table_name.table_name.s]]

\* VirtualMachine.get_tree(table_name): the handle (root page) of the table's tree
get_tree(table_name) ==
    IF ~HasTableNameAttr(table_name) \/ table_name.table_name.kind # "str"
    THEN [exc |-> "AttributeError", tree |-> CatalogRoot]
    ELSE IF Lower(table_name.table_name.s) = "catalog"
    THEN [exc |-> "none", tree |-> CatalogRoot]
    ELSE IF ~table_exists(table_name.table_name.s)
    THEN [exc |-> "KeyError", tree |-> CatalogRoot]
    ELSE [exc |-> "none", tree |-> tree_handles[table_name.table_name.s]]

\* ------------------------------------------------------------------------
\* Record-set store
\* ------------------------------------------------------------------------

\* init_recordset(): a new empty record set under a name not in use
init_recordset(rs) ==
    LET name == CHOOSE n \in 1..(Cardinality(DOMAIN rs) + 1) : n \notin DOMAIN rs
    IN [rs |-> (name :> <<>>) @@ rs, body |-> name]

\* append_recordset(name, record)
append_recordset(rs, name, record) ==
    [rs EXCEPT ![name] = Append(@, record)]

\* drop_recordset(name)
drop_recordset(rs, name) == [n \in DOMAIN rs \ {name} |-> rs[n]]

\* recordset_iter(name): iter(self.rsets[name]), a one-pass iterator; the model
\* keeps the list and the position of the iterator where it is consumed
recordset_iter(rs, name) == rs[name]

\* ------------------------------------------------------------------------
\* Materializer
\* ------------------------------------------------------------------------

\* the loop of materialized_source_from_name left after its first pass: only
\* the first cell is appended
AppendFirstCell(rs, rsname, cells, schema, i) ==
    IF Len(cells) = 0 THEN rs
    ELSE append_recordset(rs, rsname, deserialize_cell(cells[1], schema))

\* the loop of materialized_source_from_name: append the record of every cell
RECURSIVE AppendCells(_, _, _, _, _)
AppendCells(rs, rsname, cells, schema, i) ==
    IF i > Len(cells) THEN rs
    ELSE AppendCells(append_recordset(rs, rsname, deserialize_cell(cells[i], schema)),
                     rsname, cells, schema, i + 1)

\* materialized_source_from_name(table_name)
materialized_source_from_name(rs, table_name) ==
    LET Scan(i, s, t) ==
            IF s.exc # "none" THEN [exc |-> s.exc, rs |-> i.rs, body |-> i.body]
            ELSE IF t.exc # "none" THEN [exc |-> t.exc, rs |-> i.rs, body |-> i.body]
            ELSE [exc |-> "none",
                  rs |-> AppendCells(i.rs, i.body, CursorScan(TreeOf(t.tree)),
                                     s.schema, 1),
                  body |-> i.body]
    IN Scan(init_recordset(rs), get_schema(table_name), get_tree(table_name))

\* materialize_single_source(source)
materialize_single_source(rs, source) ==
    materialized_source_from_name(rs, source.table_name)


\* ------------------------------------------------------------------------
\* Condition evaluator
\* ------------------------------------------------------------------------

\* operands of a Comparison: lark Tokens (names) or literal values
Identifier(col) == [kind |-> "Token", type |-> "IDENTIFIER", col |-> col]

ScopedIdentifier(src, col) ==
    [kind |-> "Token", type |-> "SCOPED_IDENTIFIER", src |-> src, col |-> col]

Literal(v) == [kind |-> "int", v |-> v]

\* a text literal, and the null literal
TextLiteral(t) == [kind |-> "str", v |-> t]

NullLiteral == [kind |-> "NoneType", v |-> "None"]

\* the value of a column of a record: the columns of the tables are INT
ColumnValue(n) == [kind |-> "int", v |-> n]

\* symbols3.Comparison(left_op, operator, right_op)
Comparison(left_op, operator, right_op) ==
    [left_op |-> left_op, operator |-> operator, right_op |-> right_op]

\* a condition: or of and_clauses, each an and of predicates
Condition(and_clauses) == [kind |-> "Condition", and_clauses |-> and_clauses]

AndClause(predicates) == [predicates |-> predicates]

\* symbols3.WhereClause(condition)
WhereClause(condition) == [kind |-> "WhereClause", condition |-> condition]

\* isinstance(record, Record) / isinstance(record, JoinedRecord)
IsRecord(record) == record.kind = "Record"

IsJoinedRecord(record) == record.kind = "JoinedRecord"

\* JoinedRecord.from_simple_records(left_rec, right_rec, left_sname, right_sname)
from_simple_records(left_rec, right_rec, left_sname, right_sname) ==
    [kind |-> "JoinedRecord",
     srcs |-> (right_sname :> right_rec.values) @@ (left_sname :> left_rec.values)]

\* JoinedRecord.from_joined_and_simple_record(left_rec, right_rec, right_sname)
from_joined_and_simple_record(left_rec, right_rec, right_sname) ==
    [kind |-> "JoinedRecord",
     srcs |-> (right_sname :> right_rec.values) @@ left_rec.srcs]

\* JoinedRecord.get(operand) of a scoped identifier src.col
JoinedGet(record, operand) ==
    IF operand.src \in DOMAIN record.srcs
       /\ operand.col \in DOMAIN record.srcs[operand.src]
    THEN [exc |-> "none", value |-> record.srcs[operand.src][operand.col]]
    ELSE [exc |-> "KeyError", value |-> 0]

\* check_resolve_name without the two isinstance assertions: a name is looked
\* up in the record at hand, in whichever source holds the column
check_resolve_name_any_source(operand, record) ==
    IF operand.kind = "Token"
    THEN IF IsJoinedRecord(record)
         THEN IF operand.type = "IDENTIFIER"
              THEN IF \E s \in DOMAIN record.srcs : operand.col \in DOMAIN record.srcs[s]
                   THEN [exc |-> "none", success |-> TRUE,
                         body |-> ColumnValue(
                             record.srcs[CHOOSE s \in DOMAIN record.srcs :
                                             operand.col \in DOMAIN record.srcs[s]]
                                        [operand.col])]
                   ELSE [exc |-> "none", success |-> FALSE, body |-> NullLiteral]
              ELSE LET g == JoinedGet(record, operand)
                   IN [exc |-> g.exc, success |-> TRUE, body |-> ColumnValue(g.value)]
         ELSE IF operand.col \in DOMAIN record.values
              THEN [exc |-> "none", success |-> TRUE,
                    body |-> ColumnValue(record.values[operand.col])]
              ELSE [exc |-> "none", success |-> FALSE, body |-> NullLiteral]
    ELSE [exc |-> "none", success |-> TRUE, body |-> operand]

\* check_resolve_name(operand, record)
check_resolve_name(operand, record) ==
    IF operand.kind = "Token"
    THEN IF operand.type = "IDENTIFIER"
         THEN IF ~IsRecord(record)
              THEN [exc |-> "AssertionError", success |-> FALSE, body |-> NullLiteral]
              ELSE IF operand.col \in DOMAIN record.values
              THEN [exc |-> "none", success |-> TRUE,
                    body |-> ColumnValue(record.values[operand.col])]
              ELSE [exc |-> "none", success |-> FALSE, body |-> NullLiteral]
         ELSE IF ~IsJoinedRecord(record)
              THEN [exc |-> "AssertionError", success |-> FALSE, body |-> NullLiteral]
              ELSE LET g == JoinedGet(record, operand)
                   IN [exc |-> g.exc, success |-> TRUE, body |-> ColumnValue(g.value)]
    ELSE [exc |-> "none", success |-> TRUE, body |-> operand]

\* the place of a text in the order of str
StrOrd(t) == CASE t = "a" -> 1 [] t = "b" -> 2 [] OTHER -> 3

\* the value of `left_value <op> right_value`: == and != are defined between
\* values of any two types, the ordering operators raise TypeError unless both
\* values are int or both are str
PredValue(operator, left_value, right_value) ==
    LET l == IF left_value.kind = "str" THEN StrOrd(left_value.v) ELSE left_value.v
        r == IF right_value.kind = "str" THEN StrOrd(right_value.v) ELSE right_value.v
    IN IF operator = "Equal"
       THEN [exc |-> "none", value |-> left_value = right_value]
       ELSE IF operator = "NotEqual"
       THEN [exc |-> "none", value |-> left_value # right_value]
       ELSE IF left_value.kind # right_value.kind \/ left_value.kind = "NoneType"
       THEN [exc |-> "TypeError", value |-> FALSE]
       ELSE [exc |-> "none",
             value |-> CASE operator = "Greater" -> l > r
                         [] operator = "Less" -> l < r
                         [] operator = "GreaterEqual" -> l >= r
                         [] operator = "LessEqual" -> l <= r]

\* one predicate on one record: both operands are resolved, each resolution is
\* asserted to have succeeded, then the comparison is evaluated
EvalPredicate(predicate, record) ==
    LET Compare(l, r) ==
            IF l.exc # "none" THEN [exc |-> l.exc, value |-> FALSE]
            ELSE IF ~l.success THEN [exc |-> "AssertionError", value |-> FALSE]
            ELSE IF r.exc # "none" THEN [exc |-> r.exc, value |-> FALSE]
            ELSE IF ~r.success THEN [exc |-> "AssertionError", value |-> FALSE]
            ELSE PredValue(predicate.operator, l.body, r.body)
    IN Compare(check_resolve_name(predicate.left_op, record),
               check_resolve_name(predicate.right_op, record))

\* the loop over and_clause.predicates: and_result = and_result and pred_value;
\* every predicate is evaluated, whatever and_result is
RECURSIVE EvalAndClause(_, _, _, _)
EvalAndClause(predicates, i, record, and_result) ==
    IF i > Len(predicates) THEN [exc |-> "none", value |-> and_result]
    ELSE LET Rest(p) ==
                 IF p.exc # "none" THEN p
                 ELSE EvalAndClause(predicates, i + 1, record, and_result /\ p.value)
         IN Rest(EvalPredicate(predicates[i], record))

\* the loop over condition.and_clauses: or_result = or_result or and_result;
\* every and_clause is evaluated, whatever or_result is
RECURSIVE EvalCondition(_, _, _, _)
EvalCondition(and_clauses, j, record, or_result) ==
    IF j > Len(and_clauses) THEN [exc |-> "none", value |-> or_result]
    ELSE LET Rest(a) ==
                 IF a.exc # "none" THEN a
                 ELSE EvalCondition(and_clauses, j + 1, record, or_result \/ a.value)
         IN Rest(EvalAndClause(and_clauses[j].predicates, 1, record, TRUE))

\* the loop of filter_recordset over the source records, from record i on
RECURSIVE FilterLoop(_, _, _, _, _)
FilterLoop(rs, rsname, where_clause, source, i) ==
    IF i > Len(source) THEN [exc |-> "none", rs |-> rs, body |-> rsname]
    ELSE LET Rest(e) ==
                 IF e.exc # "none" THEN [exc |-> e.exc, rs |-> rs, body |-> rsname]
                 ELSE FilterLoop(IF e.value THEN append_recordset(rs, rsname, source[i])
                                 ELSE rs,
                                 rsname, where_clause, source, i + 1)
         IN Rest(EvalCondition(where_clause.condition.and_clauses, 1, source[i], FALSE))

\* filter_recordset(where_clause, source_rsname)
filter_recordset(rs, where_clause, source_rsname) ==
    LET Filter(i) ==
            FilterLoop(i.rs, i.body, where_clause, recordset_iter(i.rs, source_rsname), 1)
    IN Filter(init_recordset(rs))


\* ------------------------------------------------------------------------
\* Join engine
\* ------------------------------------------------------------------------

\* symbols3.Joining(left_source, right_source, join_type, condition)
Joining(left_source, right_source, join_type, condition) ==
    [kind |-> "Joining", left_source |-> left_source, right_source |-> right_source,
     join_type |-> join_type, condition |-> condition]

\* the position of right_iter when the inner `for right_rec in right_iter`
\* is entered for the next left record: right_iter is created once, before
\* both loops, and a for loop does not rewind an iterator
RightIterOnNextLeft(ri) == ri

\* the joined record of one pair
JoinPair(left_rec, right_rec, left_sname, right_sname) ==
    IF left_sname # "None"
    THEN from_simple_records(left_rec, right_rec, left_sname, right_sname)
    ELSE from_joined_and_simple_record(left_rec, right_rec, right_sname)

\* the nested loops of join_recordset: li is the left record at hand, ri the
\* position of right_iter
RECURSIVE JoinLoop(_, _, _, _, _, _, _, _, _)
JoinLoop(rs, rsname, join_clause, left, right, left_sname, right_sname, li, ri) ==
    IF li > Len(left) THEN [exc |-> "none", rs |-> rs, body |-> rsname]
    ELSE IF ri > Len(right)
    THEN JoinLoop(rs, rsname, join_clause, left, right, left_sname, right_sname,
                  li + 1, RightIterOnNextLeft(ri))
    ELSE LET Rest(record, e) ==
                 IF e.exc # "none" THEN [exc |-> e.exc, rs |-> rs, body |-> rsname]
                 ELSE JoinLoop(IF e.value THEN append_recordset(rs, rsname, record)
                               ELSE rs,
                               rsname, join_clause, left, right,
                               left_sname, right_sname, li, ri + 1)
             Pair(record) ==
                 IF join_clause.condition.kind = "None"
                 THEN [exc |-> "AttributeError", rs |-> rs, body |-> rsname]
                 ELSE Rest(record,
                           EvalCondition(join_clause.condition.and_clauses, 1, record, FALSE))
         IN Pair(JoinPair(left[li], right[ri], left_sname, right_sname))

\* join_recordset(join_clause, left_rsname, right_rsname, left_sname, right_sname)
join_recordset(rs, join_clause, left_rsname, right_rsname, left_sname, right_sname) ==
    LET Join(i) ==
            IF join_clause.join_type = "Inner"
            THEN JoinLoop(i.rs, i.body, join_clause,
                          recordset_iter(i.rs, left_rsname),
                          recordset_iter(i.rs, right_rsname),
                          left_sname, right_sname, 1, 1)
            ELSE [exc |-> "none", rs |-> i.rs, body |-> i.body]
    IN Join(init_recordset(rs))

\* the stack of materialize_joining: the joining, then each nested left_source,
\* down to the first source that is not a Joining
RECURSIVE JoinStack(_)
JoinStack(source) ==
    IF source.left_source.kind = "Joining"
    THEN <<source>> \o JoinStack(source.left_source)
    ELSE <<source, source.left_source>>

\* the name of a source taken from its table alone, whatever its alias
SourceNameOfTable(single_source) == single_source.table_name.table_name.s

\* table_alias or table_name.table_name
SourceName(single_source) ==
    IF single_source.table_alias # "None" THEN single_source.table_alias
    ELSE single_source.table_name.table_name.s

\* the `while stack` loop of materialize_joining: pop the next joining,
\* materialize its right source and join it with the record set at hand
RECURSIVE JoinChain(_, _, _, _)
JoinChain(rs, stack, rsname, left_source_name) ==
    IF stack = <<>> THEN [exc |-> "none", rs |-> rs, body |-> rsname]
    ELSE LET next_join == stack[Len(stack)]
             right_source == next_join.right_source
             Rest(j) ==
                 IF j.exc # "none" THEN j
                 ELSE JoinChain(j.rs, SubSeq(stack, 1, Len(stack) - 1), j.body, "None")
             JoinNext(m) ==
                 IF m.exc # "none" THEN m
                 ELSE Rest(join_recordset(m.rs, next_join, rsname, m.body,
                                          left_source_name, SourceName(right_source)))
         IN JoinNext(materialize_single_source(rs, right_source))

\* materialize_joining(source)
materialize_joining(rs, source) ==
    LET stack == JoinStack(source)
        first == stack[Len(stack)]
    IN IF first.kind # "SingleSource"
       THEN [exc |-> "AssertionError", rs |-> rs, body |-> 0]
       ELSE LET Chain(m) ==
                    IF m.exc # "none" THEN m
                    ELSE JoinChain(m.rs, SubSeq(stack, 1, Len(stack) - 1), m.body,
                                   SourceName(first))
            IN Chain(materialize_single_source(rs, first))

\* materialize(source)
materialize(rs, source) ==
    CASE source.kind = "SingleSource" -> materialize_single_source(rs, source)
      [] source.kind = "Joining" -> materialize_joining(rs, source)
      [] source.kind = "TableName" -> materialized_source_from_name(rs, source.table_name)
      [] OTHER -> [exc |-> "ValueError", rs |-> rs, body |-> 0]


\* ------------------------------------------------------------------------
\* Statements
\* ------------------------------------------------------------------------

\* an absent clause, alias or condition
NoneClause == [kind |-> "None"]

\* CreateStmnt: CREATE TABLE name (id INT PRIMARY KEY, x INT); bad_schema marks
\* a column_def_list that generate_schema rejects
CreateStmnt(name, bad_schema) ==
    [kind |-> "create", name |-> name, bad_schema |-> bad_schema]

\* InsertStmnt(table_name, column_name_list, value_list)
InsertStmnt(name, column_name_list, value_list) ==
    [kind |-> "insert", table_name |-> TableName(name),
     column_name_list |-> column_name_list, value_list |-> value_list]

\* DeleteStmnt(table_name, where_condition)
DeleteStmnt(name, where_condition) ==
    [kind |-> "delete", table_name |-> TableName(name),
     where_condition |-> where_condition]

\* FromClause(source, where_clause); the materialized source is source.source
FromClause(source, where_clause) ==
    [kind |-> "FromClause", source |-> [source |-> source],
     where_clause |-> where_clause]

\* SelectStmnt(select_list, from_clause)
SelectStmnt(select_list, from_clause) ==
    [kind |-> "select", select_list |-> select_list, from_clause |-> from_clause]

\* create_record(column_name_list, value_list, schema): the values by column
\* name; rejected unless the columns named are the columns of the schema
create_record(column_name_list, value_list, schema) ==
    LET named == {column_name_list[i] : i \in 1..Len(column_name_list)}
        cols == {schema.columns[i] : i \in 1..Len(schema.columns)}
    IN IF Len(column_name_list) # Len(value_list) \/ named # cols
       THEN Response(FALSE, "record", <<>>)
       ELSE Response(TRUE, "",
                [c \in cols |->
                    value_list[CHOOSE i \in 1..Len(column_name_list) :
                                   column_name_list[i] = c]])

\* create_catalog_record(pkey, table_name, root_pagenum, sql_text, catalog_schema)
create_catalog_record(pkey, table_name, root_pagenum, sql_text) ==
    [pkey |-> pkey, name |-> table_name,
     root_pagenum |-> root_pagenum, sql_text |-> sql_text]

\* ------------------------------------------------------------------------
\* Executors
\* ------------------------------------------------------------------------

\* steps 4 of visit_create_stmnt: pkey = page_num, and the catalog record
\* (pkey, table_name, page_num, sql_text)
CatalogRecordRootUnset(page_num, table_schema) ==
    create_catalog_record(page_num, table_schema.name.table_name.s, CatalogRoot,
                          schema_to_ddl(table_schema))

CatalogRecordFor(page_num, table_schema) ==
    create_catalog_record(page_num, table_schema.name.table_name.s, page_num,
                          schema_to_ddl(table_schema))

\* steps 3 to 8 of visit_create_stmnt: allocate the tree, build and serialize
\* the catalog record, insert it into the catalog tree (the status of the
\* insert is not looked at), register schema and tree; codec_fail is the step
\* of the catalog-record construction that fails: "none", "record", "serialize"
CreateTable(table_schema, codec_fail) ==
    LET table_name == table_schema.name.table_name.s
        page_num == allocate_tree
        allocated == [catalog_tree |-> catalog_tree,
                      trees |-> (page_num :> EmptyTree) @@ trees,
                      schemas |-> schemas, tree_handles |-> tree_handles]
        table_record == CatalogRecordFor(page_num, table_schema)
        cell == serialize_record(table_record, CatalogSchema)
    IN IF codec_fail = "record"
       THEN [exc |-> "none", resp |-> Response(FALSE, "Failure due to", <<>>),
             st |-> allocated]
       ELSE IF codec_fail = "serialize"
       THEN [exc |-> "none", resp |-> Response(FALSE, "Serialization failed", <<>>),
             st |-> allocated]
       ELSE [exc |-> "none", resp |-> None,
             st |-> [catalog_tree |-> TreeInsert(catalog_tree, cell).tree,
                     trees |-> allocated.trees,
                     schemas |-> (table_name :> table_schema) @@ schemas,
                     tree_handles |-> (table_name :> table_record.root_pagenum)
                                         @@ tree_handles]]

\* visit_create_stmnt without the assertion that the table name is unused
visit_create_stmnt_unchecked(stmnt, codec_fail) ==
    LET unchanged == [catalog_tree |-> catalog_tree, trees |-> trees,
                      schemas |-> schemas, tree_handles |-> tree_handles]
        Create(response) ==
            IF ~response.success
            THEN [exc |-> "none",
                  resp |-> Response(FALSE, "schema generation failed", <<>>),
                  st |-> unchanged]
            ELSE CreateTable(response.body, codec_fail)
    IN Create(generate_schema(stmnt))

\* visit_create_stmnt(stmnt): steps 1 and 2, then the rest
visit_create_stmnt(stmnt, codec_fail) ==
    LET unchanged == [catalog_tree |-> catalog_tree, trees |-> trees,
                      schemas |-> schemas, tree_handles |-> tree_handles]
        Create(response) ==
            IF ~response.success
            THEN [exc |-> "none",
                  resp |-> Response(FALSE, "schema generation failed", <<>>),
                  st |-> unchanged]
            ELSE IF table_exists(response.body.name.table_name.s)
            THEN [exc |-> "AssertionError", resp |-> None, st |-> unchanged]
            ELSE CreateTable(response.body, codec_fail)
    IN Create(generate_schema(stmnt))

\* visit_select_stmnt without the reset of the output pipe: the records are
\* written after the ones the pipe holds
visit_select_stmnt_appending(stmnt) ==
    LET from_clause == stmnt.from_clause
        Write(f) ==
            IF f.exc # "none"
            THEN [exc |-> f.exc, resp |-> None, rs |-> f.rs, out |-> output_pipe]
            ELSE [exc |-> "none", resp |-> None, rs |-> f.rs,
                  out |-> output_pipe \o recordset_iter(f.rs, f.body)]
        Filter(m) ==
            IF m.exc # "none"
            THEN [exc |-> m.exc, resp |-> None, rs |-> m.rs, out |-> output_pipe]
            ELSE IF from_clause.where_clause.kind # "None"
            THEN Write(filter_recordset(m.rs, from_clause.where_clause, m.body))
            ELSE Write(m)
    IN IF from_clause.kind = "None"
       THEN [exc |-> "none", resp |-> None, rs |-> rsets, out |-> output_pipe]
       ELSE Filter(materialize(rsets, from_clause.source.source))

\* visit_select_stmnt(stmnt)
visit_select_stmnt(stmnt) ==
    LET from_clause == stmnt.from_clause
        Write(f) ==
            IF f.exc # "none"
            THEN [exc |-> f.exc, resp |-> None, rs |-> f.rs, out |-> <<>>]
            ELSE [exc |-> "none", resp |-> None, rs |-> f.rs,
                  out |-> recordset_iter(f.rs, f.body)]
        Filter(m) ==
            IF m.exc # "none"
            THEN [exc |-> m.exc, resp |-> None, rs |-> m.rs, out |-> <<>>]
            ELSE IF from_clause.where_clause.kind # "None"
            THEN Write(filter_recordset(m.rs, from_clause.where_clause, m.body))
            ELSE Write(m)
    IN IF from_clause.kind = "None"
       THEN [exc |-> "none", resp |-> None, rs |-> rsets, out |-> <<>>]
       ELSE Filter(materialize(rsets, from_clause.source.source))

\* visit_insert_stmnt with both early returns replaced by asserts
visit_insert_stmnt_asserting(stmnt) ==
    LET table_name == stmnt.table_name.table_name.s
        schema == schemas[table_name]
        resp == create_record(stmnt.column_name_list, stmnt.value_list, schema)
        tree == tree_handles[table_name]
        ins == TreeInsert(trees[tree], serialize_record(resp.body, schema))
    IN IF ~has_schema(table_name) \/ ~resp.success \/ ins.status # "Success"
       THEN [exc |-> "AssertionError", resp |-> None, trees |-> trees]
       ELSE [exc |-> "none", resp |-> None,
             trees |-> [trees EXCEPT ![tree] = ins.tree]]

\* visit_insert_stmnt(stmnt)
visit_insert_stmnt(stmnt) ==
    LET table_name == stmnt.table_name.table_name.s
        schema == schemas[table_name]
        resp == create_record(stmnt.column_name_list, stmnt.value_list, schema)
        tree == tree_handles[table_name]
        cell == serialize_record(resp.body, schema)
        ins == TreeInsert(trees[tree], cell)
    IN IF ~has_schema(table_name)
       THEN [exc |-> "none", resp |-> Response(FALSE, "Table does not exist", <<>>),
             trees |-> trees]
       ELSE IF ~resp.success
       THEN [exc |-> "none", resp |-> Response(FALSE, "Insert record failed", <<>>),
             trees |-> trees]
       ELSE IF ins.status # "Success"
       THEN [exc |-> "AssertionError", resp |-> None, trees |-> trees]
       ELSE [exc |-> "none", resp |-> None,
             trees |-> [trees EXCEPT ![tree] = ins.tree]]

\* the primary keys of the records of a record set, in its order
KeysOf(records) == [i \in 1..Len(records) |-> get_primary_key(records[i])]

\* the loop `for del_key in del_keys` of visit_delete_stmnt on the tree rows:
\* stops at the first key whose delete is not Success
RECURSIVE DeleteLoop(_, _, _)
DeleteLoop(rows, del_keys, i) ==
    IF i > Len(del_keys) THEN [status |-> "Success", tree |-> rows]
    ELSE LET Rest(d) ==
                 IF d.status # "Success" THEN d
                 ELSE DeleteLoop(d.tree, del_keys, i + 1)
         IN Rest(TreeDelete(rows, del_keys[i]))

\* visit_delete_stmnt from its first assert on: m is what materialize returned
\* and table_name what get_tree is called with
DeleteFrom(stmnt, m, table_name) ==
    LET unchanged == [catalog_tree |-> catalog_tree, trees |-> trees]
        Respond(f, del_keys, t, d) ==
            LET deleted == IF t.tree = CatalogRoot
                           THEN [unchanged EXCEPT !.catalog_tree = d.tree]
                           ELSE [unchanged EXCEPT !.trees[t.tree] = d.tree]
            IN IF d.status # "Success"
               THEN [exc |-> "none", resp |-> Response(FALSE, d.status, <<>>),
                     rs |-> f.rs, st |-> deleted]
               ELSE [exc |-> "none", resp |-> Response(TRUE, "", del_keys),
                     rs |-> f.rs, st |-> deleted]
        Delete(f, del_keys, t) ==
            IF t.exc # "none"
            THEN [exc |-> t.exc, resp |-> None, rs |-> f.rs, st |-> unchanged]
            ELSE Respond(f, del_keys, t, DeleteLoop(TreeOf(t.tree), del_keys, 1))
        Collect(f) ==
            IF f.exc # "none"
            THEN [exc |-> f.exc, resp |-> None, rs |-> f.rs, st |-> unchanged]
            ELSE Delete(f, KeysOf(recordset_iter(f.rs, f.body)), get_tree(table_name))
    IN IF m.exc # "none"
       THEN [exc |-> m.exc, resp |-> None, rs |-> m.rs, st |-> unchanged]
       ELSE IF stmnt.where_condition.kind # "None"
       THEN Collect(filter_recordset(m.rs, stmnt.where_condition, m.body))
       ELSE Collect(m)

\* visit_delete_stmnt with the TableName symbol itself handed to the
\* materializer and to get_tree
visit_delete_stmnt_by_symbol(stmnt) ==
    DeleteFrom(stmnt, materialized_source_from_name(rsets, stmnt.table_name),
               stmnt.table_name)

\* visit_delete_stmnt(stmnt): materialize(stmnt.table_name), and
\* get_tree(stmnt.table_name.table_name)
visit_delete_stmnt(stmnt) ==
    DeleteFrom(stmnt, materialize(rsets, stmnt.table_name), stmnt.table_name.table_name)

\* ------------------------------------------------------------------------
\* Catalog bootstrap
\* ------------------------------------------------------------------------

\* registration of a catalog row under its lower-cased name
RegisterRowLowerCased(table_record, table_schema, reg) ==
    [schemas |-> (Lower(table_record["name"]) :> table_schema) @@ reg.schemas,
     tree_handles |-> (Lower(table_record["name"]) :> table_record["root_pagenum"])
                         @@ reg.tree_handles]

\* register_schema and register_tree of init_catalog: the schema, and the tree
\* rooted at the row's root_pagenum, are registered under the row's name
RegisterRow(table_record, table_schema, reg) ==
    [schemas |-> (table_record["name"] :> table_schema) @@ reg.schemas,
     tree_handles |-> (table_record["name"] :> table_record["root_pagenum"])
                         @@ reg.tree_handles]

\* the loop of init_catalog over the catalog cells: each row's sql_text is
\* parsed, its schema regenerated, and schema and tree handle are registered
RECURSIVE init_catalog(_, _, _)
init_catalog(cells, i, reg) ==
    IF i > Len(cells) THEN reg
    ELSE LET table_record == deserialize_cell(cells[i], CatalogSchema).values
             stmnt == ParseDDL(table_record["sql_text"])
             table_schema == generate_schema(stmnt).body
         IN init_catalog(cells, i + 1, RegisterRow(table_record, table_schema, reg))

\* the catalog cell that CREATE TABLE name writes for a tree at root page p
CatalogCellOf(name, p) ==
    serialize_record(
        create_catalog_record(p, name, p,
            schema_to_ddl(generate_schema(CreateStmnt(name, FALSE)).body)),
        CatalogSchema)

\* the stores a virtual machine is constructed over: a new database, or one in
\* which an earlier run created the two tables named by ns (in this order)
\* and inserted rows (k, 10k) for some keys k
Stores(ns) ==
    {[catalog_tree |-> EmptyTree, trees |-> EmptyTree]}
    \cup
    {[catalog_tree |-> (1 :> CatalogCellOf(ns[1], 1)) @@ (2 :> CatalogCellOf(ns[2], 2)),
      trees |-> (1 :> [k \in kl |-> <<k, 10 * k>>]) @@ (2 :> [k \in kr |-> <<k, 10 * k>>])]
        : kl \in SUBSET Keys, kr \in SUBSET Keys}

\* VirtualMachine(state_manager, output_pipe) over a store: no record sets, and
\* the catalog bootstrapped into the state manager
Init ==
    \E module \in {"virtual_machine", "virtual_machine2"} :
    \E store \in Stores(IF module = "virtual_machine" THEN <<"l", "r">> ELSE <<"L", "R">>) :
        LET reg == init_catalog(CursorScan(store.catalog_tree), 1,
                                [schemas |-> EmptyTree, tree_handles |-> EmptyTree])
        IN /\ catalog_tree = store.catalog_tree
           /\ trees = store.trees
           /\ schemas = reg.schemas
           /\ tree_handles = reg.tree_handles
           /\ rsets = EmptyTree
           /\ output_pipe = <<>>
           /\ status = "idle"
           /\ stop_on_err = FALSE
           /\ plen = 0
           /\ program = <<>>
           /\ result = <<>>
           /\ exc = "none"
           /\ vm = module
           /\ retval = Unset
           /\ live = [n \in DOMAIN reg.tree_handles |->
                         {store.trees[reg.tree_handles[n]][k] :
                              k \in DOMAIN store.trees[reg.tree_handles[n]]}]

\* ------------------------------------------------------------------------
\* run(program, stop_on_err)
\* ------------------------------------------------------------------------

\* run is called with a program of n statements
RunCall(n, soe) ==
    /\ status = "idle"
    /\ vm = "virtual_machine" => ~soe
    /\ status' = "running"
    /\ plen' = n
    /\ stop_on_err' = soe
    /\ UNCHANGED <<catalog_tree, trees, schemas, tree_handles, rsets, output_pipe,
                   program, result, exc, live, vm, retval>>

\* the loop of run with an except block that does not re-raise: the
\* statement that raised leaves no result and the loop goes on
RunLoopNoReraise(stmt, e, resp) ==
    /\ status = "running"
    /\ program' = Append(program, stmt)
    /\ UNCHANGED <<stop_on_err, plen, vm, exc>>
    /\ result' = IF e # "none" THEN result ELSE Append(result, resp)
    /\ status' = IF e = "none" /\ ~Truthy(resp) /\ stop_on_err THEN "returned"
                 ELSE IF Len(program') = plen THEN "returned"
                 ELSE "running"
    /\ retval' = IF status' = "returned" THEN PyList(result') ELSE retval

\* one pass of the `for stmt in program.statements` loop of run, given what
\* execute(stmt) raised (e) or returned (resp)
RunLoop(stmt, e, resp) ==
    /\ status = "running"
    /\ program' = Append(program, stmt)
    /\ UNCHANGED <<stop_on_err, plen, vm>>
    /\ IF e # "none"
       THEN /\ status' = "raised"
            /\ exc' = e
            /\ UNCHANGED <<result, retval>>
       ELSE /\ result' = Append(result, resp)
            /\ exc' = exc
            /\ status' = IF ~Truthy(resp) /\ stop_on_err THEN "returned"
                         ELSE IF Len(result') = plen THEN "returned"
                         ELSE "running"
            /\ retval' = IF status' = "returned" THEN PyList(result') ELSE retval

\* the where clauses the programs use
WhereIdGE2 ==
    WhereClause(Condition(<<AndClause(<<Comparison(Identifier("id"), "GreaterEqual",
                                                   Literal(2))>>)>>))

WhereIdEq1 ==
    WhereClause(Condition(<<AndClause(<<Comparison(Identifier("id"), "Equal",
                                                   Literal(1))>>)>>))

\* ON l.id = r.id
OnIdEqId ==
    Condition(<<AndClause(<<Comparison(ScopedIdentifier("l", "id"), "Equal",
                                       ScopedIdentifier("r", "id"))>>)>>)

\* WHERE id <op> 'a': the INT column id is compared with a text literal
WhereIdText(operator) ==
    WhereClause(Condition(<<AndClause(<<Comparison(Identifier("id"), operator,
                                                   TextLiteral("a"))>>)>>))

\* FROM L l INNER JOIN R r ON l.id >= 'a'
JoinLROnText ==
    Joining(SingleSource("L", "l"), SingleSource("R", "r"), "Inner",
            Condition(<<AndClause(<<Comparison(ScopedIdentifier("l", "id"),
                                               "GreaterEqual", TextLiteral("a"))>>)>>))

\* the SELECT statements whose condition compares an INT column with a text
IncompatibleSelects ==
    {SelectStmnt("*", FromClause(SingleSource("L", "None"), WhereIdText(operator))) :
        operator \in {"Less", "Equal", "NotEqual"}}
    \cup {SelectStmnt("*", FromClause(JoinLROnText, NoneClause))}

\* FROM L l <join_type> JOIN R r [ON condition]
JoinOf(join_type, condition) ==
    Joining(SingleSource("L", "l"), SingleSource("R", "r"), join_type, condition)

\* the joins without a condition, and the outer joins
UnconditionedJoins == {JoinOf(join_type, NoneClause) : join_type \in {"Inner", "Cross"}}

OuterJoins ==
    {JoinOf(join_type, OnIdEqId) : join_type \in {"LeftOuter", "RightOuter", "FullOuter"}}

\* FROM L l INNER JOIN R r ON l.id = r.id
JoinLR ==
    Joining(SingleSource("L", "l"), SingleSource("R", "r"), "Inner", OnIdEqId)

\* ON id = id: both operands are unqualified names of a column of both sources
OnBareId ==
    Condition(<<AndClause(<<Comparison(Identifier("id"), "Equal", Identifier("id"))>>)>>)

\* WHERE L.id = 1: a scoped name, for a source that is a single table
WhereScopedId ==
    WhereClause(Condition(<<AndClause(<<Comparison(ScopedIdentifier("L", "id"), "Equal",
                                                   Literal(1))>>)>>))

\* the SELECT statements whose condition holds a name of the wrong form for
\* the records it is evaluated on
MisnamedSelects ==
    {SelectStmnt("*", FromClause(JoinOf("Inner", OnBareId), NoneClause)),
     SelectStmnt("*", FromClause(SingleSource("L", "None"), WhereScopedId))}

\* ON <left>.id = <right>.id
OnIdsEqual(left, right) ==
    Condition(<<AndClause(<<Comparison(ScopedIdentifier(left, "id"), "Equal",
                                       ScopedIdentifier(right, "id"))>>)>>)

\* FROM L INNER JOIN R r ON L.id = r.id INNER JOIN L m ON r.id = m.id: the
\* parser nests the first join as the left source of the second
JoinLRM ==
    Joining(Joining(SingleSource("L", "None"), SingleSource("R", "r"), "Inner",
                    OnIdsEqual("L", "r")),
            SingleSource("L", "m"), "Inner", OnIdsEqual("r", "m"))

\* SELECT id FROM L: a select_list that names one of the two columns (a
\* select_list is "*" or the name of the one column it selects)
SelectIdFromL == SelectStmnt("id", FromClause(SingleSource("L", "None"), NoneClause))

\* WHERE id < 1 AND zz = 1: a false predicate (the keys are 1 and up), then a
\* predicate on zz, a name of no column
WhereFalseAndUnresolved ==
    WhereClause(Condition(<<AndClause(<<Comparison(Identifier("id"), "Less", Literal(1)),
                                        Comparison(Identifier("zz"), "Equal", Literal(1))>>)>>))

\* WHERE id >= 1 OR zz = 1: a true and-clause, then an and-clause on zz
WhereTrueOrUnresolved ==
    WhereClause(Condition(<<AndClause(<<Comparison(Identifier("id"), "GreaterEqual",
                                                   Literal(1))>>),
                            AndClause(<<Comparison(Identifier("zz"), "Equal",
                                                   Literal(1))>>)>>))

\* the SELECT statements whose condition has a predicate that cannot be
\* resolved, at a place a short-circuit evaluation does not get to
ShortCircuitSelects ==
    {SelectStmnt("*", FromClause(SingleSource("L", "None"), w)) :
        w \in {WhereFalseAndUnresolved, WhereTrueOrUnresolved}}

CreateStmnts == {CreateStmnt(n, b) : n \in UserTables, b \in BOOLEAN}

InsertStmnts ==
    {InsertStmnt(n, <<"id", "x">>, <<k, v>>) : n \in UserTables, k \in Keys, v \in Vals}
    \cup {InsertStmnt("L", <<"id", "y">>, <<1, 10>>)}

SelectStmnts ==
    {SelectStmnt("*", NoneClause)}
    \cup {SelectStmnt("*", FromClause(SingleSource(n, "None"), NoneClause)) :
            n \in UserTables}
    \cup {SelectStmnt("*", FromClause(SingleSource("L", "None"), WhereIdGE2))}
    \cup {SelectStmnt("*", FromClause(JoinLR, NoneClause))}
    \cup IncompatibleSelects
    \cup {SelectStmnt("*", FromClause(j, NoneClause)) : j \in UnconditionedJoins \cup OuterJoins}
    \cup MisnamedSelects
    \cup {SelectStmnt("*", FromClause(JoinLRM, NoneClause))}
    \cup {SelectIdFromL}
    \cup ShortCircuitSelects

DeleteStmnts ==
    {DeleteStmnt(n, w) : n \in {"L", "Catalog", "catalog"}, w \in {NoneClause, WhereIdEq1}}

\* execute(stmt) of a CREATE statement
ExecCreate(stmt, codec_fail) ==
    /\ vm = "virtual_machine2"
    /\ status = "running"
    /\ \E r \in {visit_create_stmnt(stmt, codec_fail)} :
        /\ RunLoop(stmt, r.exc, r.resp)
        /\ catalog_tree' = r.st.catalog_tree
        /\ trees' = r.st.trees
        /\ schemas' = r.st.schemas
        /\ tree_handles' = r.st.tree_handles
        /\ live' = IF DOMAIN r.st.tree_handles = DOMAIN tree_handles THEN live
                   ELSE (stmt.name :> {}) @@ live
        /\ UNCHANGED <<rsets, output_pipe>>

\* execute(stmt) of an INSERT statement
ExecInsert(stmt) ==
    /\ vm = "virtual_machine2"
    /\ status = "running"
    /\ \E r \in {visit_insert_stmnt(stmt)} :
        LET n == stmt.table_name.table_name.s IN
        /\ RunLoop(stmt, r.exc, r.resp)
        /\ trees' = r.trees
        /\ live' = IF r.trees = trees THEN live
                   ELSE [live EXCEPT ![n] = @ \cup {stmt.value_list}]
        /\ UNCHANGED <<catalog_tree, schemas, tree_handles, rsets, output_pipe>>

\* execute(stmt) of a SELECT statement
ExecSelect(stmt) ==
    /\ vm = "virtual_machine2"
    /\ status = "running"
    /\ \E r \in {visit_select_stmnt(stmt)} :
        /\ RunLoop(stmt, r.exc, r.resp)
        /\ rsets' = r.rs
        /\ output_pipe' = r.out
        /\ UNCHANGED <<catalog_tree, trees, schemas, tree_handles, live>>

\* execute(stmt) of a DELETE statement
ExecDelete(stmt) ==
    /\ vm = "virtual_machine2"
    /\ status = "running"
    /\ \E r \in {visit_delete_stmnt(stmt)} :
        LET n == stmt.table_name.table_name.s IN
        /\ RunLoop(stmt, r.exc, r.resp)
        /\ rsets' = r.rs
        /\ catalog_tree' = r.st.catalog_tree
        /\ trees' = r.st.trees
        /\ live' = IF n \in DOMAIN live
                   THEN [live EXCEPT ![n] =
                            {c \in @ : CellKey(c) \in
                                           DOMAIN r.st.trees[tree_handles[n]]}]
                   ELSE live
        /\ UNCHANGED <<schemas, tree_handles, output_pipe>>


\* ------------------------------------------------------------------------
\* virtual_machine.VirtualMachine: the statements of lang_parser.symbols
\* ------------------------------------------------------------------------

\* constants.CATALOG, the name the catalog goes by
CATALOG == "catalog"

\* tokens.Token(token_type, literal)
Token(token_type, literal) ==
    [kind |-> "Token", token_type |-> token_type, literal |-> literal]

\* a term of a predicate or of a value list: its token is its `value`
Term(token) == [kind |-> "Term", value |-> token]

\* symbols.Predicate(first, op, second), and the clauses holding predicates
Predicate(first, op, second) ==
    [kind |-> "Predicate", first |-> first, op |-> op, second |-> second]

AndClause_v1(predicates) == [kind |-> "AndClause", predicates |-> predicates]

WhereClause_v1(or_clause) == [kind |-> "WhereClause", or_clause |-> or_clause]

\* symbols.InsertStmnt, DeleteStmnt, DropStmnt, TruncateStmnt, UpdateStmnt
InsertStmnt_v1(name, column_name_list, value_list) ==
    [kind |-> "insert", table_name |-> Token("IDENTIFIER", name),
     column_name_list |-> column_name_list, value_list |-> value_list]

DeleteStmnt_v1(name, where_clause) ==
    [kind |-> "delete", table_name |-> Token("IDENTIFIER", name),
     where_clause |-> where_clause]

DropStmnt(name) == [kind |-> "drop", table_name |-> Token("IDENTIFIER", name)]

TruncateStmnt(name) == [kind |-> "truncate", table_name |-> Token("IDENTIFIER", name)]

UpdateStmnt(name) == [kind |-> "update", table_name |-> Token("IDENTIFIER", name)]

\* resolve_table_name(symbol): the lower-cased literal of the statement's table
\* name
resolve_table_name(symbol) ==
    IF symbol.kind \in {"delete", "insert", "drop", "truncate", "update"}
    THEN Lower(symbol.table_name.literal)
    ELSE "None"

\* the comparison of evaluate_where_clause on one predicate: the operand whose
\* token is an IDENTIFIER names the column, the other one holds the value
PredVal_v1(predicate, record) ==
    LET left_token == predicate.first.value
        right_token == predicate.second.value
        column == IF left_token.token_type = "IDENTIFIER"
                  THEN left_token.literal ELSE right_token.literal
        cond_value == IF left_token.token_type = "IDENTIFIER"
                      THEN right_token.literal ELSE left_token.literal
        record_value == record.values[column]
        op == predicate.op.token_type
    IN CASE op = "EQUAL" -> record_value = cond_value
         [] op = "NOT_EQUAL" -> record_value # cond_value
         [] op = "LESS_EQUAL" -> record_value <= cond_value
         [] op = "LESS" -> record_value < cond_value
         [] op = "GREATER_EQUAL" -> record_value >= cond_value
         [] op = "GREATER" -> record_value > cond_value

\* the loop over the predicates of one and-clause: every predicate is evaluated
RECURSIVE AndResult_v1(_, _, _, _)
AndResult_v1(predicates, i, and_result, record) ==
    IF i > Len(predicates) THEN and_result
    ELSE AndResult_v1(predicates, i + 1,
                      and_result /\ PredVal_v1(predicates[i], record), record)

\* the loop over the and-clauses: returns True at the first true or_result
RECURSIVE OrResult_v1(_, _, _, _)
OrResult_v1(or_clause, i, or_result, record) ==
    IF i > Len(or_clause) THEN FALSE
    ELSE LET Exit(r) == IF r THEN TRUE ELSE OrResult_v1(or_clause, i + 1, r, record)
         IN Exit(or_result \/ AndResult_v1(or_clause[i].predicates, 1, TRUE, record))

\* evaluate_where_clause(where_clause, record)
evaluate_where_clause(where_clause, record) ==
    IF where_clause.kind = "None" THEN TRUE
    ELSE OrResult_v1(where_clause.or_clause, 1, FALSE, record)

\* the cursor loop of visit_delete_stmnt: the keys of the rows that satisfy the
\* where clause, in key order
RECURSIVE DelKeys_v1(_, _, _, _)
DelKeys_v1(cells, i, schema, where_clause) ==
    IF i > Len(cells) THEN <<>>
    ELSE LET record == deserialize_cell(cells[i], schema)
             Keep(matches) ==
                 IF matches THEN <<record.values[schema.pkcol]>> ELSE <<>>
         IN Keep(evaluate_where_clause(where_clause, record))
                \o DelKeys_v1(cells, i + 1, schema, where_clause)

\* visit_insert_stmnt(stmnt) of virtual_machine: the literals of the column and
\* value tokens make the record; every failure is an assert
visit_insert_stmnt_v1(stmnt) ==
    LET table_name == resolve_table_name(stmnt)
        column_names == [i \in 1..Len(stmnt.column_name_list) |->
                            stmnt.column_name_list[i].literal]
        value_list == [i \in 1..Len(stmnt.value_list) |->
                          stmnt.value_list[i].value.literal]
        Store(ins) ==
            IF ins.status # "Success"
            THEN [exc |-> "AssertionError", resp |-> None, trees |-> trees]
            ELSE [exc |-> "none", resp |-> None,
                  trees |-> [trees EXCEPT ![tree_handles[table_name]] = ins.tree]]
        Insert(schema, resp) ==
            IF ~resp.success
            THEN [exc |-> "AssertionError", resp |-> None, trees |-> trees]
            ELSE Store(TreeInsert(trees[tree_handles[table_name]],
                                  serialize_record(resp.body, schema)))
    IN IF ~has_schema(table_name)
       THEN [exc |-> "KeyError", resp |-> None, trees |-> trees]
       ELSE Insert(schemas[table_name],
                   create_record(column_names, value_list, schemas[table_name]))

\* visit_delete_stmnt(stmnt) of virtual_machine: the catalog is refused by an
\* assert on the resolved name; the state manager has no tree for a name that
\* is not registered
visit_delete_stmnt_v1(stmnt) ==
    LET table_name == resolve_table_name(stmnt)
        Delete(d) ==
            IF d.status # "Success"
            THEN [exc |-> "AssertionError", resp |-> None, trees |-> trees]
            ELSE [exc |-> "none", resp |-> None,
                  trees |-> [trees EXCEPT ![tree_handles[table_name]] = d.tree]]
        Scan(rows, schema) ==
            Delete(DeleteLoop(rows,
                              DelKeys_v1(CursorScan(rows), 1, schema, stmnt.where_clause),
                              1))
    IN IF table_name = CATALOG
       THEN [exc |-> "AssertionError", resp |-> None, trees |-> trees]
       ELSE IF ~table_exists(table_name)
       THEN [exc |-> "KeyError", resp |-> None, trees |-> trees]
       ELSE Scan(trees[tree_handles[table_name]], schemas[table_name])

\* visit_drop_stmnt(stmnt) of virtual_machine: resolves the name, opens a cursor
\* on the catalog and raises
visit_drop_stmnt(stmnt) ==
    [exc |-> "NotImplementedError", resp |-> None, trees |-> trees]

\* visit_truncate_stmnt(stmnt) and visit_update_stmnt(stmnt) of virtual_machine
visit_truncate_stmnt(stmnt) == [exc |-> "none", resp |-> None, trees |-> trees]

visit_update_stmnt(stmnt) == [exc |-> "none", resp |-> None, trees |-> trees]

\* one pass of the loop of run of virtual_machine, given what execute(stmt)
\* raised (e) or returned (resp); after the last pass run falls off its end
RunLoop_v1(stmt, e, resp) ==
    /\ status = "running"
    /\ program' = Append(program, stmt)
    /\ UNCHANGED <<stop_on_err, plen, vm>>
    /\ IF e # "none"
       THEN /\ status' = "raised"
            /\ exc' = e
            /\ UNCHANGED <<result, retval>>
       ELSE /\ result' = Append(result, resp)
            /\ exc' = exc
            /\ status' = IF Len(result') = plen THEN "returned" ELSE "running"
            /\ retval' = IF status' = "returned" THEN None ELSE retval

\* WHERE id = 1, and WHERE 2 <= id OR x = 10
WhereIdEq1_v1 ==
    WhereClause_v1(<<AndClause_v1(<<Predicate(Term(Token("IDENTIFIER", "id")),
                                              Token("EQUAL", "="),
                                              Term(Token("NUMBER", 1)))>>)>>)

WhereOr_v1 ==
    WhereClause_v1(<<AndClause_v1(<<Predicate(Term(Token("NUMBER", 2)),
                                              Token("LESS_EQUAL", "<="),
                                              Term(Token("IDENTIFIER", "id")))>>),
                     AndClause_v1(<<Predicate(Term(Token("IDENTIFIER", "x")),
                                              Token("EQUAL", "="),
                                              Term(Token("NUMBER", 10)))>>)>>)

\* the table names the statements of virtual_machine mention
Names_v1 == {"l", "R", "Catalog", "catalog"}

\* the table names of the DROP, TRUNCATE and UPDATE statements
UnhandledNames_v1 == {"l", "catalog"}

InsertStmnts_v1 ==
    {InsertStmnt_v1(n, <<Token("IDENTIFIER", "id"), Token("IDENTIFIER", "x")>>,
                    <<Term(Token("NUMBER", k)), Term(Token("NUMBER", v))>>) :
        n \in {"l", "R"}, k \in Keys, v \in Vals}
    \cup {InsertStmnt_v1("l", <<Token("IDENTIFIER", "id")>>, <<Term(Token("NUMBER", 1))>>)}

DeleteStmnts_v1 ==
    {DeleteStmnt_v1(n, w) : n \in Names_v1, w \in {NoneClause, WhereIdEq1_v1, WhereOr_v1}}

\* execute(stmt) of virtual_machine for the statement kinds whose handlers
\* touch the trees only
ExecInsert_v1(stmt) ==
    /\ vm = "virtual_machine"
    /\ status = "running"
    /\ \E r \in {visit_insert_stmnt_v1(stmt)} :
        /\ RunLoop_v1(stmt, r.exc, r.resp)
        /\ trees' = r.trees
        /\ live' = IF r.trees = trees THEN live
                   ELSE [live EXCEPT ![resolve_table_name(stmt)] =
                            @ \cup {<<stmt.value_list[1].value.literal,
                                      stmt.value_list[2].value.literal>>}]
        /\ UNCHANGED <<catalog_tree, schemas, tree_handles, rsets, output_pipe>>

ExecDelete_v1(stmt) ==
    /\ vm = "virtual_machine"
    /\ status = "running"
    /\ \E r \in {visit_delete_stmnt_v1(stmt)} :
        LET n == resolve_table_name(stmt) IN
        /\ RunLoop_v1(stmt, r.exc, r.resp)
        /\ trees' = r.trees
        /\ live' = IF n \in DOMAIN live
                   THEN [live EXCEPT ![n] =
                            {c \in @ : CellKey(c) \in DOMAIN r.trees[tree_handles[n]]}]
                   ELSE live
        /\ UNCHANGED <<catalog_tree, schemas, tree_handles, rsets, output_pipe>>

ExecDrop(stmt) ==
    /\ vm = "virtual_machine"
    /\ status = "running"
    /\ \E r \in {visit_drop_stmnt(stmt)} :
        /\ RunLoop_v1(stmt, r.exc, r.resp)
        /\ UNCHANGED <<catalog_tree, trees, schemas, tree_handles, rsets,
                       output_pipe, live>>

ExecTruncate(stmt) ==
    /\ vm = "virtual_machine"
    /\ status = "running"
    /\ \E r \in {visit_truncate_stmnt(stmt)} :
        /\ RunLoop_v1(stmt, r.exc, r.resp)
        /\ UNCHANGED <<catalog_tree, trees, schemas, tree_handles, rsets,
                       output_pipe, live>>

ExecUpdate(stmt) ==
    /\ vm = "virtual_machine"
    /\ status = "running"
    /\ \E r \in {visit_update_stmnt(stmt)} :
        /\ RunLoop_v1(stmt, r.exc, r.resp)
        /\ UNCHANGED <<catalog_tree, trees, schemas, tree_handles, rsets,
                       output_pipe, live>>

\* symbols.AliasableSource(source_name, alias_name): the source is a table
\* name token or a Joining
AliasableSource(source_name, alias_name) ==
    [kind |-> "AliasableSource", source_name |-> source_name, alias_name |-> alias_name]

\* symbols.Joining(left_source, right_source, join_type, on_clause)
Joining_v1(left_source, right_source, join_type, on_clause) ==
    [kind |-> "Joining", left_source |-> left_source, right_source |-> right_source,
     join_type |-> join_type, on_clause |-> on_clause]

\* symbols.SelectExpr(from_location, where_clause)
SelectExpr(from_location, where_clause) ==
    [kind |-> "select_expr", from_location |-> from_location,
     where_clause |-> where_clause]

\* get_record_iter(source): its first statement reads is_single_table, a name
\* that is bound nowhere
get_record_iter(source) == [exc |-> "NameError", records |-> <<>>]

\* the records of the cells of a scan, deserialized with a schema
RecordsOf(cells, schema) ==
    [i \in 1..Len(cells) |-> deserialize_cell(cells[i], schema)]

\* materialize_source(source) of virtual_machine: a table is scanned into a
\* record set, under the name as written; for a joining the innermost left
\* source is handed to get_record_iter before anything is joined
materialize_source(source) ==
    IF source.source_name.kind = "Token"
    THEN LET table_name == source.source_name.literal
         IN IF table_name # CATALOG /\ ~table_exists(table_name)
            THEN [exc |-> "ExecutionException", records |-> <<>>]
            ELSE IF table_name = CATALOG
            THEN [exc |-> "none",
                  records |-> RecordsOf(CursorScan(catalog_tree), CatalogSchema)]
            ELSE [exc |-> "none",
                  records |-> RecordsOf(CursorScan(trees[tree_handles[table_name]]),
                                        schemas[table_name])]
    ELSE get_record_iter(source.source_name.left_source)

\* the records of a record set that evaluate_where_clause is True of
RECURSIVE WriteMatching_v1(_, _, _)
WriteMatching_v1(records, i, where_clause) ==
    IF i > Len(records) THEN <<>>
    ELSE LET Write(matches) == IF matches THEN <<records[i]>> ELSE <<>>
         IN Write(evaluate_where_clause(where_clause, records[i]))
                \o WriteMatching_v1(records, i + 1, where_clause)

\* visit_select_expr(expr): the output pipe is reset, the source is
\* materialized, and the records the where clause holds of are written
visit_select_expr(expr) ==
    LET Select(m) ==
            IF m.exc # "none" THEN [exc |-> m.exc, resp |-> None, out |-> <<>>]
            ELSE [exc |-> "none", resp |-> None,
                  out |-> WriteMatching_v1(m.records, 1, expr.where_clause)]
    IN Select(materialize_source(expr.from_location))

\* FROM l a <join_type> JOIN r b, without ON
JoinOf_v1(join_type) ==
    AliasableSource(
        Joining_v1(AliasableSource(Token("IDENTIFIER", "l"), Token("IDENTIFIER", "a")),
                   AliasableSource(Token("IDENTIFIER", "r"), Token("IDENTIFIER", "b")),
                   join_type, NoneClause),
        NoneClause)

SelectExprs ==
    {SelectExpr(AliasableSource(Token("IDENTIFIER", n), NoneClause), w) :
        n \in {"l", "R"}, w \in {NoneClause, WhereIdEq1_v1, WhereOr_v1}}
    \cup {SelectExpr(AliasableSource(Token("IDENTIFIER", "catalog"), NoneClause), NoneClause)}
    \cup {SelectExpr(JoinOf_v1(join_type), NoneClause) : join_type \in {"Inner", "LeftOuter"}}

ExecSelectExpr(stmt) ==
    /\ vm = "virtual_machine"
    /\ status = "running"
    /\ \E r \in {visit_select_expr(stmt)} :
        /\ RunLoop_v1(stmt, r.exc, r.resp)
        /\ output_pipe' = r.out
        /\ UNCHANGED <<catalog_tree, trees, schemas, tree_handles, rsets, live>>

Next ==
    \/ \E n \in 1..MaxStmts, soe \in BOOLEAN : RunCall(n, soe)
    \/ \E stmt \in CreateStmnts, codec_fail \in {"none", "record", "serialize"} :
           ExecCreate(stmt, codec_fail)
    \/ \E stmt \in InsertStmnts : ExecInsert(stmt)
    \/ \E stmt \in SelectStmnts : ExecSelect(stmt)
    \/ \E stmt \in DeleteStmnts : ExecDelete(stmt)
    \/ \E stmt \in InsertStmnts_v1 : ExecInsert_v1(stmt)
    \/ \E stmt \in DeleteStmnts_v1 : ExecDelete_v1(stmt)
    \/ \E n \in UnhandledNames_v1 : ExecDrop(DropStmnt(n))
    \/ \E n \in UnhandledNames_v1 : ExecTruncate(TruncateStmnt(n))
    \/ \E n \in UnhandledNames_v1 : ExecUpdate(UpdateStmnt(n))
    \/ \E stmt \in SelectExprs : ExecSelectExpr(stmt)

Spec == Init /\ [][Next]_vars


\* ------------------------------------------------------------------------
\* Properties
\* ------------------------------------------------------------------------

\* the statement run executed last
LastStmt == program[Len(program)]

\* a statement was executed and execute returned (did not raise)
LastReturned == Len(program) > 0 /\ status # "raised"

\* the step executes one more statement, of the given kind
Executes(kind) ==
    /\ Len(program') = Len(program) + 1
    /\ program'[Len(program')].kind = kind

\* the rows of a registered table, by key
RowsOf(name) == trees[tree_handles[name]]

\* the row <<id, x>> a record of a user table stands for
RowOfRecord(record) == <<record.values["id"], record.values["x"]>>

\* is the result of a statement a failure Response
IsFailure(resp) == resp.kind = "Response" /\ ~resp.success

\* the last statement is SELECT * FROM <single table>, without WHERE, and returned
SelectedAll ==
    /\ LastReturned
    /\ LastStmt.kind = "select"
    /\ LastStmt.from_clause.kind # "None"
    /\ LastStmt.from_clause.source.source.kind = "SingleSource"
    /\ LastStmt.from_clause.where_clause.kind = "None"

\* C1: after SELECT * FROM T without WHERE, the output sink holds exactly the
\* rows inserted into T and not deleted since, each once, in ascending order
\* of the primary key (and nothing when T is empty)
C1_SelectAllRows ==
    SelectedAll =>
        LET T == LastStmt.from_clause.source.source.table_name.table_name.s
            rows == [i \in 1..Len(output_pipe) |-> RowOfRecord(output_pipe[i])]
        IN /\ {rows[i] : i \in 1..Len(rows)} = live[T]
           /\ Len(rows) = Cardinality(live[T])
           /\ \A i, j \in 1..Len(rows) : i < j => rows[i][1] < rows[j][1]

\* a row with key 1 was inserted into a table that held key 2, then selected
C1_Witness ==
    /\ SelectedAll
    /\ Len(program) = 2
    /\ program[1].kind = "insert"
    /\ program[1].value_list[1] = 1
    /\ Len(output_pipe) = 2

\* the last statement is SELECT * FROM L l INNER JOIN R r ON l.id = r.id and returned
SelectedJoin ==
    /\ LastReturned
    /\ LastStmt.kind = "select"
    /\ LastStmt.from_clause.kind # "None"
    /\ LastStmt.from_clause.source.source.kind = "Joining"

\* C2: the inner join on l.id = r.id yields one joined record for every pair
\* of a left and a right record with equal id, for every left record, in
\* left-then-right order
C2_InnerJoinAllPairs ==
    SelectedJoin =>
        LET ks == SortedKeys(DOMAIN RowsOf("L") \cap DOMAIN RowsOf("R"))
        IN /\ Len(output_pipe) = Len(ks)
           /\ \A i \in 1..Len(ks) :
                  output_pipe[i] =
                      from_simple_records(
                          deserialize_cell(RowsOf("L")[ks[i]], schemas["L"]),
                          deserialize_cell(RowsOf("R")[ks[i]], schemas["R"]),
                          "l", "r")

\* C3: with stop_on_err run stops before the end of the program only after a
\* statement whose result is a failure
C3_StopOnlyOnFailure ==
    (status = "returned" /\ stop_on_err /\ Len(program) < plen)
        => /\ retval = PyList(result)
           /\ IsFailure(result[Len(result)])

\* what the statement at a position of the program must have as its result
ResultFits(stmt, resp) ==
    IF vm = "virtual_machine"
    THEN resp = None
    ELSE /\ stmt.kind = "select" => resp = None
         /\ (stmt.kind = "create" /\ stmt.bad_schema) => IsFailure(resp)
         /\ (stmt.kind = "create" /\ ~stmt.bad_schema /\ IsFailure(resp))
                => resp.error_message \in {"Failure due to", "Serialization failed"}
         /\ (stmt.kind = "insert" /\ stmt.column_name_list # <<"id", "x">>)
                => IsFailure(resp)
         /\ (stmt.kind = "insert" /\ IsFailure(resp))
                => resp.error_message \in {"Table does not exist", "Insert record failed"}

\* without stop_on_err, and when nothing raised, every statement executed so
\* far has its result, run goes on to the end of the program, and returns the
\* list of the results
RunReturnsResults ==
    (~stop_on_err /\ status \in {"running", "returned"}) =>
        /\ Len(result) = Len(program)
        /\ status = "returned" <=> Len(program) = plen
        /\ \A i \in 1..Len(result) : ResultFits(program[i], result[i])
        /\ status = "returned" => retval = PyList(result)

\* run of virtual_machine2 has the property; run of virtual_machine does not
RunReturnsResults_vm2 == vm = "virtual_machine2" => RunReturnsResults

\* C4: without stop_on_err, and when nothing raised, run returns one result
\* for every statement of the program, in program order; a failure result
\* does not keep the later statements from being executed
C4_OneResultPerStatement == RunReturnsResults

\* C5: every result run returns is a Response, with an error message when it
\* is a failure
C5_UniformResults ==
    vm = "virtual_machine2" =>
        \A i \in 1..Len(result) :
            /\ result[i].kind = "Response"
            /\ ~result[i].success => result[i].error_message # ""

\* does a row satisfy the WHERE condition of a DELETE (none: every row does)
Matches(where_condition, cell, schema) ==
    \/ where_condition.kind = "None"
    \/ EvalCondition(where_condition.condition.and_clauses, 1,
                     deserialize_cell(cell, schema), FALSE).value

\* C6: DELETE FROM T WHERE C removes exactly the rows of T that satisfy C,
\* changes no other table, and returns success with the removed keys in scan order
C6_DeleteRemovesMatching ==
    [][(vm = "virtual_machine2"
          /\ Executes("delete")
          /\ program'[Len(program')].table_name.table_name.s \in DOMAIN tree_handles)
       => LET stmt == program'[Len(program')]
              T == stmt.table_name.table_name.s
              gone == {k \in DOMAIN RowsOf(T) :
                          Matches(stmt.where_condition, RowsOf(T)[k], schemas[T])}
          IN /\ status' # "raised"
             /\ catalog_tree' = catalog_tree
             /\ \A p \in DOMAIN trees :
                    trees'[p] = IF p = tree_handles[T]
                                THEN [k \in DOMAIN trees[p] \ gone |-> trees[p][k]]
                                ELSE trees[p]
             /\ result' = Append(result, Response(TRUE, "", SortedKeys(gone)))]_vars

\* C7: once DELETE FROM T WHERE id = 1 was executed, and key 1 was not
\* inserted again, T does not hold key 1
C7_DeletedKeyGone ==
    \A i \in 1..Len(program) :
        (/\ vm = "virtual_machine2"
         /\ program[i].kind = "delete"
         /\ program[i].where_condition.kind # "None"
         /\ program[i].table_name.table_name.s \in DOMAIN tree_handles
         /\ \A j \in (i + 1)..Len(program) : program[j].kind # "insert")
        => 1 \notin DOMAIN RowsOf(program[i].table_name.table_name.s)

\* the table name a DELETE statement was written with
DeleteTarget(stmt) ==
    IF vm = "virtual_machine2" THEN stmt.table_name.table_name.s
    ELSE stmt.table_name.literal

DeleteByKey_v1 ==
    /\ vm = "virtual_machine"
    /\ Len(program) = 2
    /\ program[1].kind = "insert"
    /\ program[1].value_list[1].value.literal = 1
    /\ program[2] = DeleteStmnt_v1("l", WhereIdEq1_v1)
    /\ status = "returned"
    /\ trees[1] = (2 :> <<2, 20>>)

CatalogRowsNamed(name) ==
    {k \in DOMAIN catalog_tree :
        deserialize_cell(catalog_tree[k], CatalogSchema).values["name"] = name}

\* C9: every registered table has exactly one catalog row with its name, and
\* pkey and root_pagenum of that row are the root page of the table's tree
C9_OneCatalogRowPerTable ==
    \A T \in DOMAIN tree_handles :
        /\ Cardinality(CatalogRowsNamed(T)) = 1
        /\ \A k \in CatalogRowsNamed(T) :
               LET row == deserialize_cell(catalog_tree[k], CatalogSchema).values
               IN /\ row["pkey"] = tree_handles[T]
                  /\ row["root_pagenum"] = tree_handles[T]
                  /\ row["pkey"] = k
        /\ tree_handles[T] \in DOMAIN trees
        /\ \A U \in DOMAIN tree_handles : U # T => tree_handles[U] # tree_handles[T]

\* two tables were created in one run
C9_Witness ==
    /\ status = "returned"
    /\ Len(program) = 2
    /\ program[1].kind = "create"
    /\ program[2].kind = "create"
    /\ result = <<None, None>>
    /\ DOMAIN tree_handles = {"L", "R"}

\* C10: CREATE TABLE of a registered name raises, and allocates no tree,
\* inserts no catalog row and registers nothing
C10_CreateExistingIsFatal ==
    [][(Executes("create")
          /\ ~program'[Len(program')].bad_schema
          /\ program'[Len(program')].name \in DOMAIN tree_handles)
       => /\ status' = "raised"
          /\ exc' = "AssertionError"
          /\ UNCHANGED <<catalog_tree, trees, schemas, tree_handles>>]_vars

\* CREATE TABLE L was executed on a store that has L
C10_Witness ==
    /\ Len(program) > 0
    /\ LastStmt.kind = "create"
    /\ ~LastStmt.bad_schema
    /\ status = "raised"
    /\ exc = "AssertionError"
    /\ LastStmt.name \in DOMAIN tree_handles

\* what a VirtualMachine constructed now over the store would register
Bootstrap ==
    init_catalog(CursorScan(catalog_tree), 1,
                 [schemas |-> EmptyTree, tree_handles |-> EmptyTree])

\* C11: a virtual machine constructed over the store registers, for every
\* catalog row, the schema the row was written from and a tree rooted at the
\* row's root_pagenum, under the row's name: the registered tables, their
\* schemas and their trees are the ones registered before reopening
C11_BootstrapRoundTrip ==
    /\ Bootstrap.schemas = schemas
    /\ Bootstrap.tree_handles = tree_handles
    /\ \A T \in DOMAIN tree_handles :
           \E k \in DOMAIN catalog_tree :
               LET row == deserialize_cell(catalog_tree[k], CatalogSchema).values
               IN /\ row["name"] = T
                  /\ row["root_pagenum"] = tree_handles[T]
                  /\ generate_schema(ParseDDL(row["sql_text"])).body = schemas[T]

\* R and then L were created in one run on a new database
C11_Witness ==
    /\ status = "returned"
    /\ Len(program) = 2
    /\ program[1] = CreateStmnt("R", FALSE)
    /\ program[2] = CreateStmnt("L", FALSE)
    /\ tree_handles = ("R" :> 1) @@ ("L" :> 2)

\* the INSERT statement of the step names a table that is not registered, or
\* the record builder rejects its column and value lists
InsertRejected(stmt) ==
    \/ stmt.table_name.table_name.s \notin DOMAIN schemas
    \/ ~create_record(stmt.column_name_list, stmt.value_list,
                      schemas[stmt.table_name.table_name.s]).success

\* C12: an INSERT into a table that is not registered, or whose column and
\* value lists the record builder rejects, does not raise: it returns a failure
\* result, and no tree changes
C12_InsertRejectedIsFailure ==
    [][(vm = "virtual_machine2" /\ Executes("insert")
          /\ InsertRejected(program'[Len(program')]))
       => /\ status' # "raised"
          /\ result' = Append(result, result'[Len(result')])
          /\ IsFailure(result'[Len(result')])
          /\ UNCHANGED <<catalog_tree, trees, schemas, tree_handles>>]_vars

\* an INSERT naming a column the table does not have came back as a failure
C12_Witness ==
    /\ vm = "virtual_machine2"
    /\ Len(program) > 0
    /\ LastStmt.kind = "insert"
    /\ LastStmt.table_name.table_name.s \in DOMAIN schemas
    /\ LastStmt.column_name_list = <<"id", "y">>
    /\ status # "raised"
    /\ Len(result) = Len(program)
    /\ IsFailure(result[Len(result)])

\* the INSERT statement of the step gets as far as tree.insert, and the tree
\* of its table holds the key of its record
InsertDuplicate(stmt) ==
    /\ ~InsertRejected(stmt)
    /\ stmt.value_list[1] \in DOMAIN RowsOf(stmt.table_name.table_name.s)

\* C13: an INSERT whose tree.insert is not Success raises out of run: run
\* returns no result list, the state is as the earlier statements left it,
\* and once run has raised no further statement is executed
C13_InsertFailureIsFatal ==
    [][/\ (vm = "virtual_machine2" /\ Executes("insert")
             /\ InsertDuplicate(program'[Len(program')]))
          => /\ status' = "raised"
             /\ exc' = "AssertionError"
             /\ retval' = Unset
             /\ UNCHANGED <<result, catalog_tree, trees, schemas, tree_handles>>
       /\ status = "raised" => UNCHANGED vars]_vars

\* the row (1, 20) was inserted into L, and the next INSERT with key 1 raised
C13_Witness ==
    /\ vm = "virtual_machine2"
    /\ Len(program) = 2
    /\ program[1].kind = "insert"
    /\ program[2].kind = "insert"
    /\ program[2].table_name.table_name.s = "L"
    /\ program[2].value_list[1] = 1
    /\ status = "raised"
    /\ exc = "AssertionError"
    /\ Len(result) = 1
    /\ "L" \in DOMAIN tree_handles
    /\ 1 \in DOMAIN RowsOf("L")
    /\ RowsOf("L")[1] = <<1, 20>>

\* C14: a comparison of an INT column with a text literal is false and raises
\* nothing, whatever the operator, in WHERE and in ON: a SELECT whose only
\* comparison is of this kind returns and writes no record
C14_IncompatibleIsFalse ==
    (/\ vm = "virtual_machine2"
     /\ Len(program) > 0
     /\ LastStmt \in IncompatibleSelects
     /\ {"L", "R"} \subseteq DOMAIN tree_handles)
    => /\ status # "raised"
       /\ output_pipe = <<>>

\* the value of a column in a row <<id, x>> of a user table
ColOf(row, col) == IF col = "id" THEN row[1] ELSE row[2]

\* the mathematical meaning of a comparison operator on two integers, under
\* the names the two symbol sets give it
Cmp(op, a, b) ==
    CASE op \in {"Equal", "EQUAL"} -> a = b
      [] op \in {"NotEqual", "NOT_EQUAL"} -> a # b
      [] op \in {"Less", "LESS"} -> a < b
      [] op \in {"LessEqual", "LESS_EQUAL"} -> a <= b
      [] op \in {"Greater", "GREATER"} -> a > b
      [] op \in {"GreaterEqual", "GREATER_EQUAL"} -> a >= b

\* is the operand of a comparison an integer for the row, and which one
IsIntOperand(operand) ==
    IF operand.kind = "Token" THEN operand.type = "IDENTIFIER"
    ELSE operand.kind = "int"

IntOperand(operand, row) ==
    IF operand.kind = "Token" THEN ColOf(row, operand.col) ELSE operand.v

\* the OR-of-ANDs meaning of a WHERE clause of symbols3 for a row: a comparison
\* of values of incompatible kinds is false
Sat(where_clause, row) ==
    \E i \in DOMAIN where_clause.condition.and_clauses :
        \A j \in DOMAIN where_clause.condition.and_clauses[i].predicates :
            LET p == where_clause.condition.and_clauses[i].predicates[j]
            IN /\ IsIntOperand(p.left_op)
               /\ IsIntOperand(p.right_op)
               /\ Cmp(p.operator, IntOperand(p.left_op, row), IntOperand(p.right_op, row))

\* the value of a term of a predicate of lang_parser.symbols for a row
TermValue(term, row) ==
    IF term.value.token_type = "IDENTIFIER" THEN ColOf(row, term.value.literal)
    ELSE term.value.literal

\* the OR-of-ANDs meaning of a WHERE clause of lang_parser.symbols for a row
Sat_v1(where_clause, row) ==
    \E i \in DOMAIN where_clause.or_clause :
        \A j \in DOMAIN where_clause.or_clause[i].predicates :
            LET p == where_clause.or_clause[i].predicates[j]
            IN Cmp(p.op.token_type, TermValue(p.first, row), TermValue(p.second, row))

\* the step is SELECT * FROM T WHERE C of virtual_machine2 on a registered T
SelectsWhere ==
    /\ vm = "virtual_machine2"
    /\ Executes("select")
    /\ program'[Len(program')].from_clause.kind # "None"
    /\ program'[Len(program')].from_clause.source.source.kind = "SingleSource"
    /\ program'[Len(program')].from_clause.where_clause.kind # "None"
    /\ program'[Len(program')].from_clause.source.source.table_name.table_name.s
           \in DOMAIN tree_handles

\* the step is DELETE FROM t WHERE C of virtual_machine on a registered t
DeletesWhere_v1 ==
    /\ vm = "virtual_machine"
    /\ Executes("delete")
    /\ program'[Len(program')].where_clause.kind # "None"
    /\ resolve_table_name(program'[Len(program')]) \in DOMAIN tree_handles

\* filter_recordset keeps the rows of T that satisfy C, in the order of the scan
FilterIsOrOfAnds ==
    SelectsWhere =>
        LET stmt == program'[Len(program')]
            rows == RowsOf(stmt.from_clause.source.source.table_name.table_name.s)
            ks == SortedKeys({k \in DOMAIN rows :
                                 Sat(stmt.from_clause.where_clause, rows[k])})
        IN /\ status' # "raised"
           /\ Len(output_pipe') = Len(ks)
           /\ \A i \in 1..Len(ks) : RowOfRecord(output_pipe'[i]) = rows[ks[i]]

\* evaluate_where_clause is true of the rows of t that satisfy C: DELETE
\* removes them and no other row
EvaluateIsOrOfAnds_v1 ==
    DeletesWhere_v1 =>
        LET stmt == program'[Len(program')]
            t == tree_handles[resolve_table_name(stmt)]
        IN /\ status' # "raised"
           /\ trees'[t] = [k \in {j \in DOMAIN trees[t] :
                                     ~Sat_v1(stmt.where_clause, trees[t][j])}
                              |-> trees[t][k]]

\* C15: a record is kept by the WHERE clause exactly when the OR-of-ANDs of
\* its comparisons is true of the record, and the records kept stay in the
\* order of the source; for filter_recordset and for evaluate_where_clause
C15_WhereIsOrOfAnds ==
    [][FilterIsOrOfAnds /\ EvaluateIsOrOfAnds_v1]_vars

\* filter_recordset with comparisons between integers only
FilterIsOrOfAnds_Integers ==
    [][(SelectsWhere /\ program'[Len(program')] \notin IncompatibleSelects)
          => FilterIsOrOfAnds]_vars

\* the last statement is a SELECT from the given join of L and R, both registered
SelectedFrom(joins) ==
    /\ vm = "virtual_machine2"
    /\ Len(program) > 0
    /\ LastStmt.kind = "select"
    /\ LastStmt.from_clause.kind # "None"
    /\ LastStmt.from_clause.source.source \in joins
    /\ {"L", "R"} \subseteq DOMAIN tree_handles

\* the pairs of a key of L and a key of R, the keys of L first
RECURSIVE PairsOf(_, _)
PairsOf(lks, rks) ==
    IF lks = <<>> THEN <<>>
    ELSE [i \in 1..Len(rks) |-> <<lks[1], rks[i]>>] \o PairsOf(Tail(lks), rks)

\* the last statement is a SELECT of virtual_machine from the given join of l
\* and r, both registered
SelectedFrom_v1(join_type) ==
    /\ vm = "virtual_machine"
    /\ Len(program) > 0
    /\ LastStmt = SelectExpr(JoinOf_v1(join_type), NoneClause)
    /\ {"l", "r"} \subseteq DOMAIN tree_handles

\* virtual_machine2 writes every pair of an unconditioned join
CrossJoinAllPairs ==
    SelectedFrom(UnconditionedJoins) =>
        LET pairs == PairsOf(SortedKeys(DOMAIN RowsOf("L")), SortedKeys(DOMAIN RowsOf("R")))
        IN /\ status # "raised"
           /\ Len(output_pipe) = Cardinality(DOMAIN RowsOf("L")) * Cardinality(DOMAIN RowsOf("R"))
           /\ \A i \in 1..Len(pairs) :
                  output_pipe[i] =
                      from_simple_records(
                          deserialize_cell(RowsOf("L")[pairs[i][1]], schemas["L"]),
                          deserialize_cell(RowsOf("R")[pairs[i][2]], schemas["R"]),
                          "l", "r")

\* virtual_machine writes one record for every pair of an unconditioned join
CrossJoinAllPairs_v1 ==
    SelectedFrom_v1("Inner") =>
        /\ status # "raised"
        /\ Len(output_pipe) = Cardinality(DOMAIN RowsOf("l")) * Cardinality(DOMAIN RowsOf("r"))

\* C16: a join without a condition appends the joined record of every pair of
\* a left and a right record: no predicate is evaluated, nothing raises, and
\* the result has |left| * |right| records
C16_CrossJoinAllPairs == CrossJoinAllPairs /\ CrossJoinAllPairs_v1

\* the statement executed last ended in a "not implemented" error
NotImplemented ==
    \/ status = "raised" /\ exc = "NotImplementedError"
    \/ /\ status # "raised"
       /\ Len(result) = Len(program)
       /\ IsFailure(result[Len(result)])

\* C17: a SELECT from a left, right or full outer join does not come back as
\* if it had succeeded: it ends in a "not implemented" error
C17_OuterJoinNotImplemented ==
    /\ SelectedFrom(OuterJoins) => NotImplemented
    /\ SelectedFrom_v1("LeftOuter") => NotImplemented

\* the step is a SELECT of virtual_machine2 whose condition holds a name of
\* the wrong form, and the condition is evaluated on at least one record
EvaluatesMisnamed ==
    /\ vm = "virtual_machine2"
    /\ Executes("select")
    /\ program'[Len(program')] \in MisnamedSelects
    /\ "L" \in DOMAIN tree_handles
    /\ DOMAIN RowsOf("L") # {}
    /\ program'[Len(program')].from_clause.source.source.kind = "Joining"
           => "R" \in DOMAIN tree_handles /\ DOMAIN RowsOf("R") # {}

MisnamedScoped ==
    /\ vm = "virtual_machine2"
    /\ Len(program) = 1
    /\ LastStmt = SelectStmnt("*", FromClause(SingleSource("L", "None"), WhereScopedId))
    /\ "L" \in DOMAIN tree_handles
    /\ 1 \in DOMAIN RowsOf("L")
    /\ status = "raised"

\* the table each source name of JoinLRM stands for
TableOfSource == ("L" :> "L") @@ ("r" :> "R") @@ ("m" :> "L")

\* the joined record is built from the rows with key k of its three sources
BuiltFromKey(record, k) ==
    \A s \in DOMAIN TableOfSource :
        /\ k \in DOMAIN RowsOf(TableOfSource[s])
        /\ record.srcs[s] =
               deserialize_cell(RowsOf(TableOfSource[s])[k], schemas[TableOfSource[s]]).values
        /\ \A col \in {"id", "x"} :
               JoinedGet(record, ScopedIdentifier(s, col)) =
                   [exc |-> "none",
                    value |-> ColOf(RowsOf(TableOfSource[s])[k], col)]

\* C19: the left-deep join L, R r, L m is materialized from L on, in textual
\* order, so that each ON condition finds the sources it names; every record
\* of the final set has exactly the origins L (a table name), r and m (aliases),
\* and a scoped lookup in it gives the column of the row of that source the
\* record was built from
C19_LeftDeepJoinOrigins ==
    SelectedFrom({JoinLRM}) =>
        /\ status # "raised"
        /\ \A i \in 1..Len(output_pipe) :
               /\ IsJoinedRecord(output_pipe[i])
               /\ DOMAIN output_pipe[i].srcs = {"L", "r", "m"}
               /\ \E k \in Keys : BuiltFromKey(output_pipe[i], k)

\* (1, 20) was inserted into L while R holds (1, 10): the three-way join wrote
\* the record of key 1, whose L.x and m.x are 20 and whose r.x is 10
C19_Witness ==
    /\ SelectedFrom({JoinLRM})
    /\ Len(program) = 2
    /\ program[1] = InsertStmnt("L", <<"id", "x">>, <<1, 20>>)
    /\ Len(output_pipe) = 1
    /\ output_pipe[1].srcs["L"]["x"] = 20
    /\ output_pipe[1].srcs["r"]["x"] = 10
    /\ output_pipe[1].srcs["m"]["x"] = 20

\* the columns a select_list selects from a table with the given schema
SelectedColumns(select_list, schema) ==
    IF select_list = "*" THEN {schema.columns[i] : i \in 1..Len(schema.columns)}
    ELSE {select_list}

\* the last statement is a SELECT of virtual_machine2 from the registered
\* table L alone, without WHERE
SelectedFromL ==
    /\ vm = "virtual_machine2"
    /\ SelectedAll
    /\ LastStmt.from_clause.source.source.table_name.table_name.s = "L"
    /\ "L" \in DOMAIN tree_handles

\* C20: each record written to the output sink holds the selected columns and
\* no other: the columns named by the select_list, or every column for *
C20_ProjectionApplied ==
    SelectedFromL =>
        \A i \in 1..Len(output_pipe) :
            DOMAIN output_pipe[i].values = SelectedColumns(LastStmt.select_list, schemas["L"])

\* SELECT * writes the whole record
WholeRecordForStar ==
    (SelectedFromL /\ LastStmt.select_list = "*") =>
        \A i \in 1..Len(output_pipe) : DOMAIN output_pipe[i].values = {"id", "x"}

\* SELECT * FROM L wrote a record
WholeRecordWritten ==
    /\ SelectedFromL
    /\ LastStmt.select_list = "*"
    /\ Len(output_pipe) > 0

\* the step executes a SELECT, of either virtual machine
ExecutesSelect == Executes("select") \/ Executes("select_expr")

\* the rows <<id, x>> the records of the output pipe stand for after the step
RowsWritten == {RowOfRecord(output_pipe'[i]) : i \in 1..Len(output_pipe')}

\* after a SELECT the output pipe holds what this SELECT wrote: nothing when
\* it raised or has no FROM clause, no record twice, and for a SELECT from one
\* registered user table only rows of that table
OnlyWrittenBySelect ==
    LET stmt == program'[Len(program')]
    IN /\ status' = "raised" => output_pipe' = <<>>
       /\ (stmt.kind = "select" /\ stmt.from_clause.kind = "None") => output_pipe' = <<>>
       /\ \A i, j \in 1..Len(output_pipe') : i # j => output_pipe'[i] # output_pipe'[j]
       /\ (/\ stmt.kind = "select"
           /\ stmt.from_clause.kind # "None"
           /\ stmt.from_clause.source.source.kind = "SingleSource"
           /\ status' # "raised")
          => LET T == stmt.from_clause.source.source.table_name.table_name.s
             IN RowsWritten \subseteq {RowsOf(T)[k] : k \in DOMAIN RowsOf(T)}
       /\ (/\ stmt.kind = "select_expr"
           /\ stmt.from_location.source_name.kind = "Token"
           /\ stmt.from_location.source_name.literal \in DOMAIN tree_handles
           /\ status' # "raised")
          => LET t == stmt.from_location.source_name.literal
             IN RowsWritten \subseteq {RowsOf(t)[k] : k \in DOMAIN RowsOf(t)}

\* C21: every SELECT resets the output pipe before anything else, so that
\* after it the pipe holds only what it wrote, also when it raised or has no
\* FROM clause; a statement of any other kind leaves the pipe as it is
C21_SinkResetBySelectOnly ==
    [][/\ ExecutesSelect => OnlyWrittenBySelect
       /\ (Len(program') = Len(program) + 1 /\ ~ExecutesSelect)
              => UNCHANGED output_pipe]_vars

\* SELECT * FROM L wrote the rows of L, then a SELECT that raised left the
\* pipe empty
C21_Witness ==
    /\ vm = "virtual_machine2"
    /\ Len(program) = 2
    /\ program[1] = SelectStmnt("*", FromClause(SingleSource("L", "None"), NoneClause))
    /\ "L" \in DOMAIN tree_handles
    /\ DOMAIN RowsOf("L") # {}
    /\ program[2] \in MisnamedSelects
    /\ status = "raised"
    /\ output_pipe = <<>>

\* SELECT * FROM L wrote the rows of L, and the INSERT after it left them in
\* the pipe
PipeKeptByInsert ==
    /\ vm = "virtual_machine2"
    /\ Len(program) = 2
    /\ program[1] = SelectStmnt("*", FromClause(SingleSource("L", "None"), NoneClause))
    /\ program[2].kind = "insert"
    /\ Len(output_pipe) > 0

\* virtual_machine: a SELECT wrote rows of l, the SELECT from the unknown
\* table R after it raised and left the pipe empty
PipeReset_v1 ==
    /\ vm = "virtual_machine"
    /\ Len(program) = 2
    /\ program[1] = SelectExpr(AliasableSource(Token("IDENTIFIER", "l"), NoneClause),
                               NoneClause)
    /\ "l" \in DOMAIN tree_handles
    /\ DOMAIN RowsOf("l") # {}
    /\ program[2].kind = "select_expr"
    /\ status = "raised"
    /\ output_pipe = <<>>

\* C22: between statements the record-set store is empty: a SELECT or DELETE
\* that has returned or raised has dropped every record set it created
C22_RecordSetsDropped == DOMAIN rsets = {}

\* the record-set store does not grow over a sequence of statements
RecordSetsDoNotGrow ==
    [][Cardinality(DOMAIN rsets') <= Cardinality(DOMAIN rsets)]_vars

\* the step is a DELETE of virtual_machine2 on a registered table that collects
\* at least one key
DeletesCollectedKeys ==
    /\ vm = "virtual_machine2"
    /\ Executes("delete")
    /\ program'[Len(program')].table_name.table_name.s \in DOMAIN tree_handles
    /\ LET stmt == program'[Len(program')]
           T == stmt.table_name.table_name.s
       IN \E k \in DOMAIN RowsOf(T) : Matches(stmt.where_condition, RowsOf(T)[k], schemas[T])

C24_ShortCircuit ==
    [][(/\ vm = "virtual_machine2"
        /\ Executes("select")
        /\ program'[Len(program')] \in ShortCircuitSelects
        /\ "L" \in DOMAIN tree_handles)
       => /\ status' # "raised"
          /\ Len(output_pipe') =
                 IF program'[Len(program')].from_clause.where_clause = WhereFalseAndUnresolved
                 THEN 0 ELSE Cardinality(DOMAIN RowsOf("L"))]_vars

\* the same on a table without rows: no predicate is evaluated at all
ShortCircuitOnNoRows ==
    [][(/\ vm = "virtual_machine2"
        /\ Executes("select")
        /\ program'[Len(program')] \in ShortCircuitSelects
        /\ "L" \in DOMAIN tree_handles
        /\ DOMAIN RowsOf("L") = {})
       => status' # "raised" /\ output_pipe' = <<>>]_vars

\* the step executes a CREATE that returns a failure result
CreateFails ==
    /\ Executes("create")
    /\ status' # "raised"
    /\ Len(result') = Len(result) + 1
    /\ IsFailure(result'[Len(result')])

\* C25: a CREATE TABLE that returns a failure result leaves the trees of the
\* pager, the catalog tree and the registered schemas and tree handles as they
\* were
C25_FailedCreateChangesNothing ==
    [][CreateFails => UNCHANGED <<trees, catalog_tree, schemas, tree_handles>>]_vars

\* a CREATE TABLE whose schema generation fails changes nothing
FailedSchemaChangesNothing ==
    [][(CreateFails /\ program'[Len(program')].bad_schema)
          => UNCHANGED <<trees, catalog_tree, schemas, tree_handles>>]_vars

\* the table names of the rows of the catalog tree
CatalogNames ==
    {deserialize_cell(catalog_tree[k], CatalogSchema).values["name"] :
        k \in DOMAIN catalog_tree}

====
